---- MODULE Spec2Model ----
(***************************************************************************)
(* Data-integrity layer of the event-listing application:                  *)
(*   src/database/event.model.js    slugify, normalizeTime, the Event      *)
(*                                  schema and its pre-save hook, and the  *)
(*                                  cached connectToDatabase helper        *)
(*   src/database/booking.model.js  the Booking schema and its pre-save    *)
(*                                  referential check                      *)
(*                                                                         *)
(* A JavaScript string is a sequence of one-character strings, so that     *)
(* trimming, case folding and the regular expressions are computed on the  *)
(* characters.  `undefined` is the one-element sequence Undefined.         *)
(***************************************************************************)
EXTENDS Integers, Sequences, FiniteSets, TLC

VARIABLES
    text, slug, reslug,                  \* slugify applied once and twice
    timeIn, timeParsed, timeOut,         \* one call of normalizeTime
    cached, settled, connectCalls, callers,  \* connectToDatabase
    models, events, bookings,            \* mongoose.models and the two collections
    lastSave, slugAssigned,              \* the last Event save, and its history
    saves, committed                     \* Booking saves in flight, and their history

slugVars  == <<text, slug, reslug>>
timeVars  == <<timeIn, timeParsed, timeOut>>
connVars  == <<cached, settled, connectCalls, callers>>
storeVars == <<models, events, bookings>>
eventVars == <<lastSave, slugAssigned>>
bookVars  == <<saves, committed>>
vars == <<slugVars, timeVars, connVars, storeVars, eventVars, bookVars>>

\* what each part of the model leaves alone
exceptSlug    == <<timeVars, connVars, storeVars, eventVars, bookVars>>
exceptTime    == <<slugVars, connVars, storeVars, eventVars, bookVars>>
exceptConn    == <<slugVars, timeVars, storeVars, eventVars, bookVars>>
exceptEvent   == <<slugVars, timeVars, connVars, bookVars>>
exceptBooking == <<slugVars, timeVars, connVars, eventVars>>

(***************************************************************************)
(* Strings                                                                 *)
(***************************************************************************)
Undefined == <<"undefined">>

Str2(a, b) == <<a, b>>

UpperSeq == <<"A","B","C","D","E","F","G","H","I","J","K","L","M",
              "N","O","P","Q","R","S","T","U","V","W","X","Y","Z">>
LowerSeq == <<"a","b","c","d","e","f","g","h","i","j","k","l","m",
              "n","o","p","q","r","s","t","u","v","w","x","y","z">>
DigitSeq == <<"0","1","2","3","4","5","6","7","8","9">>

IsUpper(c) == \E i \in DOMAIN UpperSeq : UpperSeq[i] = c
IsLower(c) == \E i \in DOMAIN LowerSeq : LowerSeq[i] = c
IsDigit(c) == \E i \in DOMAIN DigitSeq : DigitSeq[i] = c
\* \s of a JavaScript regular expression, and what String.prototype.trim strips
SpaceChars == {" ", "\t", "\n", "\r"}
HyphenChars == {"-"}
IsSpace(c) == c \in SpaceChars
IsHyphen(c) == c \in HyphenChars

ToLowerChar(c) ==
    IF IsUpper(c) THEN LowerSeq[CHOOSE i \in DOMAIN UpperSeq : UpperSeq[i] = c] ELSE c

\* String.prototype.toLowerCase
ToLowerCase(s) == [i \in DOMAIN s |-> ToLowerChar(s[i])]

\* s without its leading and trailing characters of class C
StripEnds(s, C) ==
    LET keep == {i \in DOMAIN s : s[i] \notin C}
    IN  IF keep = {} THEN <<>>
        ELSE SubSeq(s, CHOOSE i \in keep : \A j \in keep : i <= j,
                       CHOOSE i \in keep : \A j \in keep : i >= j)

\* String.prototype.trim
Trim(s) == StripEnds(s, SpaceChars)

\* s.replace(/[C]+/g, rep): every maximal run of class C becomes the one character rep
ReplaceRuns(s, C, rep) ==
    LET drop == "drop"
        mark == [i \in DOMAIN s |->
                    IF s[i] \notin C THEN s[i]
                    ELSE IF i > 1 /\ s[i-1] \in C THEN drop ELSE rep]
    IN  SelectSeq(mark, LAMBDA c : c # drop)

\* all sequences over S of length at most n
SeqsUpTo(S, n) == UNION {[1..k -> S] : k \in 0..n}

(***************************************************************************)
(* slugify (event.model.js 7-15)                                           *)
(***************************************************************************)
\* .replace(/[^a-z0-9\s-]/g, '')
SlugChar(c) == IsLower(c) \/ IsDigit(c) \/ IsSpace(c) \/ IsHyphen(c)
StripInvalid(s) == SelectSeq(s, SlugChar)

\* .replace(/\s+/g, '-')
SpacesToHyphen(s) == ReplaceRuns(s, SpaceChars, "-")

\* a slugify that forgets to collapse runs of hyphens
KeepHyphenRuns(s) == s
\* .replace(/-+/g, '-')
CollapseHyphens(s) == ReplaceRuns(s, HyphenChars, "-")

\* .replace(/^-+|-+$/g, '')
StripHyphens(s) == StripEnds(s, HyphenChars)

slugify(t) ==
    StripHyphens(CollapseHyphens(SpacesToHyphen(StripInvalid(Trim(ToLowerCase(t))))))

(***************************************************************************)
(* normalizeTime (event.model.js 18-48)                                    *)
(***************************************************************************)
DigitVal(c) == (CHOOSE i \in DOMAIN DigitSeq : DigitSeq[i] = c) - 1

RECURSIVE ToNumber(_)
\* Number() of a string of decimal digits
ToNumber(ds) ==
    IF ds = <<>> THEN 0
    ELSE 10 * ToNumber(SubSeq(ds, 1, Len(ds) - 1)) + DigitVal(ds[Len(ds)])

RECURSIVE NumToStr(_)
\* String() of a natural number
NumToStr(n) ==
    IF n < 10 THEN <<DigitSeq[n + 1]>>
    ELSE NumToStr(n \div 10) \o <<DigitSeq[(n % 10) + 1]>>

\* String(n).padStart(2, '0')
Pad2(n) == IF n < 10 THEN <<"0">> \o NumToStr(n) ELSE NumToStr(n)

\* `${pad(h)}:${pad(m)}`
Clock(h, m) == Pad2(h) \o <<":">> \o Pad2(m)

AllDigits(s) == \A i \in DOMAIN s : IsDigit(s[i])

NoMatch == [ok |-> FALSE, h |-> <<>>, m |-> <<>>, pm |-> FALSE]

\* v.match(/^(\d{1,2}):(\d{2})$/)
MatchHHMM(v) ==
    LET n == Len(v)
    IN  IF /\ n \in {4, 5}
           /\ v[n - 2] = ":"
           /\ AllDigits(SubSeq(v, 1, n - 3))
           /\ AllDigits(SubSeq(v, n - 1, n))
        THEN [ok |-> TRUE, h |-> SubSeq(v, 1, n - 3), m |-> SubSeq(v, n - 1, n), pm |-> FALSE]
        ELSE NoMatch

\* v.match(/^(\d{1,2})(?::(\d{2}))?\s*(am|pm)$/i): m is <<>> when the group is absent
MatchAmPm(v) ==
    LET n == Len(v)
        suffix == IF n >= 2 THEN ToLowerCase(SubSeq(v, n - 1, n)) ELSE <<>>
        front == IF n >= 2 THEN SubSeq(v, 1, n - 2) ELSE <<>>
        nums == LET keep == {i \in DOMAIN front : ~IsSpace(front[i])}
                IN  IF keep = {} THEN <<>>
                    ELSE SubSeq(front, 1, CHOOSE i \in keep : \A j \in keep : i >= j)
        k == Len(nums)
    IN  IF suffix \notin {Str2("a", "m"), Str2("p", "m")} THEN NoMatch
        ELSE IF k \in {1, 2} /\ AllDigits(nums)
        THEN [ok |-> TRUE, h |-> nums, m |-> <<>>, pm |-> suffix = Str2("p", "m")]
        ELSE IF /\ k \in {4, 5}
                /\ nums[k - 2] = ":"
                /\ AllDigits(SubSeq(nums, 1, k - 3))
                /\ AllDigits(SubSeq(nums, k - 1, k))
        THEN [ok |-> TRUE, h |-> SubSeq(nums, 1, k - 3), m |-> SubSeq(nums, k - 1, k),
              pm |-> suffix = Str2("p", "m")]
        ELSE NoMatch

\* an hour conversion that forgets the 12 o'clock case
AmPmHourNoNoon(h, isPm) == IF isPm THEN h + 12 ELSE h
\* if (h === 12) h = isPm ? 12 : 0; else if (isPm) h += 12;
AmPmHour(h, isPm) ==
    IF h = 12 THEN (IF isPm THEN 12 ELSE 0)
    ELSE IF isPm THEN h + 12 ELSE h

\* What Date.parse returned: NaN, or a time value whose local hour and minute are h, m
NaN == [nan |-> TRUE, h |-> 0, m |-> 0]
ParsedTimes == {[nan |-> FALSE, h |-> 0, m |-> 0], [nan |-> FALSE, h |-> 17, m |-> 30]}

\* A string of digits and colons with a colon in it: a time of day and no day
IsClockOnly(v) ==
    /\ \E i \in DOMAIN v : v[i] = ":"
    /\ \A i \in DOMAIN v : IsDigit(v[i]) \/ v[i] = ":"

\* Date.parse(v) for a v that is not in the ISO date-time format is up to the
\* engine.  V8 answers NaN for a time of day with no day in it; for any other
\* string either answer is possible.
DateParseOutcomes(v) == IF IsClockOnly(v) THEN {NaN} ELSE {NaN} \cup ParsedTimes

\* Whether normalizeTime gets as far as Date.parse
ReachesDateParse(value) ==
    LET v == Trim(value)
        hhmm == MatchHHMM(v)
    IN  /\ value # Undefined /\ value # <<>>
        /\ ~(hhmm.ok /\ ToNumber(hhmm.h) < 24 /\ ToNumber(hhmm.m) < 60)
        /\ ~MatchAmPm(v).ok

\* normalizeTime(value), with parsed the answer of Date.parse(v) should it be asked
normalizeTime(value, parsed) ==
    IF value = Undefined \/ value = <<>> THEN value
    ELSE
    LET v == Trim(value)
        hhmm == MatchHHMM(v)
        ampm == MatchAmPm(v)
    IN  IF hhmm.ok /\ ToNumber(hhmm.h) >= 0 /\ ToNumber(hhmm.h) < 24
                   /\ ToNumber(hhmm.m) >= 0 /\ ToNumber(hhmm.m) < 60
        THEN Clock(ToNumber(hhmm.h), ToNumber(hhmm.m))
        ELSE IF ampm.ok
        THEN Clock(AmPmHour(ToNumber(ampm.h), ampm.pm), ToNumber(ampm.m))
        ELSE IF ~parsed.nan
        THEN Clock(parsed.h, parsed.m)
        ELSE v

(***************************************************************************)
(* Bounds of the inputs                                                    *)
(***************************************************************************)
MaxTitleLen == 4
MaxHourDigits == 2
MaxCallers == 3
MaxCalls == 2
MaxSaves == 2

\* "not yet computed", for the variables that hold a result
Pending == <<"pending">>

TitleChars == {"a", "B", "1", " ", "-", "!"}
Titles == SeqsUpTo(TitleChars, MaxTitleLen)

HourChars == {"0", "1", "2", "5", "9"}
HourParts == SeqsUpTo(HourChars, MaxHourDigits)
ColonParts == {<<>>, <<":">>}
MinuteParts == {<<>>, <<"0", "0">>, <<"0", "5">>, <<"5", "9">>, <<"6", "0">>,
                <<"5">>, <<"0", "0", "0">>}
GapParts == {<<>>, <<" ">>}
SuffixParts == {<<>>, <<"a", "m">>, <<"p", "m">>, <<"A", "M">>, <<"P", "m">>,
                <<"x", "m">>, <<"p">>}

\* The hook hands normalizeTime the time path of the document, which the
\* schema's trim setter has trimmed and the hook has found non-empty.
TimeInputs ==
    {v \in {h \o c \o m \o g \o x : h \in HourParts, c \in ColonParts,
            m \in MinuteParts, g \in GapParts, x \in SuffixParts} :
        v # <<>> /\ Trim(v) = v}


(***************************************************************************)
(* slugify applied to a title, and again to its own result                 *)
(***************************************************************************)

Derive ==
    /\ slug = Pending
    /\ slug' = slugify(text)
    /\ UNCHANGED <<text, reslug, exceptSlug>>

Rederive ==
    /\ slug # Pending /\ reslug = Pending
    /\ reslug' = slugify(slug)
    /\ UNCHANGED <<text, slug, exceptSlug>>

(***************************************************************************)
(* One call of normalizeTime                                               *)
(***************************************************************************)

NormalizeTimeCall ==
    /\ timeOut = Pending
    /\ \E parsed \in (IF ReachesDateParse(timeIn) THEN DateParseOutcomes(Trim(timeIn))
                      ELSE {NaN}) :
          /\ timeParsed' = parsed
          /\ timeOut' = normalizeTime(timeIn, parsed)
    /\ UNCHANGED <<timeIn, exceptTime>>

(***************************************************************************)
(* connectToDatabase (event.model.js 171-206)                              *)
(*   cached.conn     0 for null, else the handle                           *)
(*   cached.promise  0 for null, else the number of the mongoose.connect   *)
(*                   call that made the promise; that call's handle has    *)
(*                   the same number                                       *)
(*   settled[k]      the state of the k-th call's promise                  *)
(***************************************************************************)
Callers == 1..MaxCallers

\* a helper that looks at the connection where it should look at the promise
NoConnYet(c) == c.conn = 0
\* if (!cached.promise)
NoPromiseYet(c) == c.promise = 0

\* The call up to its await: the early return, or the (possibly new) promise
Call(p) ==
    /\ callers[p].pc = "idle"
    /\ callers[p].n < MaxCalls
    /\ IF cached.conn # 0
       THEN /\ callers' = [callers EXCEPT ![p] =
                    [pc |-> "returned", awaits |-> 0, ret |-> cached.conn, n |-> @.n + 1]]
            /\ UNCHANGED <<cached, settled, connectCalls>>
       ELSE IF NoPromiseYet(cached)
       THEN /\ connectCalls' = connectCalls + 1
            /\ settled' = Append(settled, "pending")
            /\ cached' = [cached EXCEPT !.promise = connectCalls + 1]
            /\ callers' = [callers EXCEPT ![p] =
                    [pc |-> "awaiting", awaits |-> connectCalls + 1, ret |-> 0, n |-> @.n + 1]]
       ELSE /\ callers' = [callers EXCEPT ![p] =
                    [pc |-> "awaiting", awaits |-> cached.promise, ret |-> 0, n |-> @.n + 1]]
            /\ UNCHANGED <<cached, settled, connectCalls>>
    /\ UNCHANGED exceptConn

\* mongoose.connect succeeds: its promise is fulfilled with the handle
ConnectResolves(k) ==
    /\ settled[k] = "pending"
    /\ settled' = [settled EXCEPT ![k] = "fulfilled"]
    /\ UNCHANGED <<cached, connectCalls, callers, exceptConn>>

\* mongoose.connect fails: its promise is rejected
ConnectRejects(k) ==
    /\ settled[k] = "pending"
    /\ settled' = [settled EXCEPT ![k] = "rejected"]
    /\ UNCHANGED <<cached, connectCalls, callers, exceptConn>>

\* cached.conn = await cached.promise; return cached.conn
Resume(p) ==
    /\ callers[p].pc = "awaiting"
    /\ settled[callers[p].awaits] # "pending"
    /\ IF settled[callers[p].awaits] = "fulfilled"
       THEN /\ cached' = [cached EXCEPT !.conn = callers[p].awaits]
            /\ callers' = [callers EXCEPT ![p].pc = "returned", ![p].ret = callers[p].awaits]
       ELSE /\ callers' = [callers EXCEPT ![p].pc = "threw"]
            /\ UNCHANGED cached
    /\ UNCHANGED <<settled, connectCalls, exceptConn>>

\* the caller is done with the result and may call again
CallAgain(p) ==
    /\ callers[p].pc \in {"returned", "threw"}
    /\ callers[p].n < MaxCalls
    /\ callers' = [callers EXCEPT ![p].pc = "idle", ![p].awaits = 0, ![p].ret = 0]
    /\ UNCHANGED <<cached, settled, connectCalls, exceptConn>>

(***************************************************************************)
(* The Event schema (event.model.js 50-71)                                 *)
(***************************************************************************)
EventIds == {1, 2}
NoDoc == [absent |-> TRUE]

PlainFields == {"description", "overview", "image", "venue", "location",
                "mode", "audience", "organizer"}
\* the paths declared with trim: true
TrimmedFields == PlainFields \cup {"title", "date", "time"}
ArrayFields == {"agenda", "tags"}
Fields == TrimmedFields \cup ArrayFields \cup {"slug"}

\* const requiredStringFields = [...] (event.model.js 98-110), in its order
requiredStringFields ==
    <<"title", "description", "overview", "image", "venue", "location",
      "date", "time", "mode", "audience", "organizer">>

\* new Event({}): no path set, the arrays at their default []
EmptyDoc == [f \in Fields |-> IF f \in ArrayFields THEN <<>> ELSE Undefined]

\* Assigning v to path f runs the path's setters; an array path set to
\* undefined falls back to its default
SetPath(f, v) ==
    IF f \in ArrayFields THEN (IF v = Undefined THEN <<>> ELSE v)
    ELSE IF f \in TrimmedFields /\ v # Undefined THEN Trim(v)
    ELSE v

\* base with the paths of patch assigned
Assign(base, patch) ==
    [f \in Fields |-> IF f \in DOMAIN patch THEN SetPath(f, patch[f]) ELSE base[f]]

\* doc.isModified(f) for every f, after the assignments that led from base to doc
ModifiedPaths(base, doc) == {f \in Fields : doc[f] # base[f]}

\* !value, for a string or undefined
Falsy(v) == v = Undefined \/ v = <<>>

\* The schema's own validation, which save() runs before the pre('save') hooks:
\* the paths whose `required` validator fails.  A string passes when it is a
\* non-empty string; an array passes when it is an array.
ValidationFailures(doc) ==
    {f \in TrimmedFields \cup {"slug"} : Falsy(doc[f])}
        \cup {f \in ArrayFields : doc[f] = Undefined}

(***************************************************************************)
(* The Event pre-save hook (event.model.js 75-126)                         *)
(***************************************************************************)
DateIso   == <<"2","0","2","4","-","0","1","-","0","5">>
DatePrev  == <<"2","0","2","4","-","0","1","-","0","4">>
DateLoose == <<"2","0","2","4","-","1","-","5">>

\* new Date(d), then toISOString().split('T')[0] unless the date is invalid.
\* The ISO form is read as UTC midnight and prints as itself; any other
\* form the engine understands is read as local midnight, whose UTC day is
\* the same day or the one before; what it does not understand is left.
NormalizeDateOutcomes(d) ==
    IF d = DateIso THEN {DateIso}
    ELSE IF d = DateLoose THEN {DateIso, DatePrev}
    ELSE {d}

\* a hook that derives the slug on every save
SlugAlwaysDerived(doc, modified) == slugify(IF Falsy(doc.title) THEN <<>> ELSE doc.title)
\* a hook that derives the slug only when there is none
SlugOnlyWhenMissing(doc, modified) ==
    IF Falsy(doc.slug) THEN slugify(IF Falsy(doc.title) THEN <<>> ELSE doc.title) ELSE doc.slug
\* if (this.isModified('title') || !this.slug) this.slug = slugify(this.title || '')
SlugAfterHook(doc, modified) ==
    IF "title" \in modified \/ Falsy(doc.slug)
    THEN slugify(IF Falsy(doc.title) THEN <<>> ELSE doc.title)
    ELSE doc.slug

\* The slug, date and time as the hook leaves them (lines 77-96); nd and parsed
\* are the answers of new Date(this.date) and of Date.parse inside normalizeTime
Normalized(doc, modified, nd, parsed) ==
    [doc EXCEPT
        !.slug = SlugAfterHook(doc, modified),
        !.date = IF "date" \in modified /\ ~Falsy(doc.date) THEN nd ELSE @,
        !.time = IF "time" \in modified /\ ~Falsy(doc.time)
                 THEN normalizeTime(doc.time, parsed) ELSE @]

\* !this[f] || String(this[f]).trim() === ''
Blank(v) == Falsy(v) \/ Trim(v) = <<>>

NoError == <<>>

\* a hook that forgets the two array checks
StringChecksOnly(doc) ==
    LET bad == {i \in DOMAIN requiredStringFields : Blank(doc[requiredStringFields[i]])}
    IN  IF bad # {}
        THEN <<requiredStringFields[CHOOSE i \in bad : \A j \in bad : i <= j]>>
        ELSE NoError
\* The required-field loop and the two array checks (lines 112-123): the
\* field the hook's error names, or NoError
HookError(doc) ==
    LET bad == {i \in DOMAIN requiredStringFields : Blank(doc[requiredStringFields[i]])}
    IN  IF bad # {}
        THEN <<requiredStringFields[CHOOSE i \in bad : \A j \in bad : i <= j]>>
        ELSE IF doc.agenda = Undefined \/ Len(doc.agenda) = 0 THEN <<"agenda">>
        ELSE IF doc.tags = Undefined \/ Len(doc.tags) = 0 THEN <<"tags">>
        ELSE NoError

\* slug: { unique: true }: the index refuses a second document with the slug
SlugTaken(id, s) == \E other \in EventIds \ {id} : events[other] # NoDoc /\ events[other].slug = s

(***************************************************************************)
(* Event saves.  A caller builds a document (new Event(payload), or a      *)
(* stored document with some paths assigned) and calls save(); save() runs *)
(* the schema's validation, then the pre-save hook, then the write.        *)
(***************************************************************************)
BlankStr == <<" ">>
TitleHi  == <<"H", "i", "!">>
TitleAb  == <<"A", " ", "b">>
SlugX    == <<"x">>
TimeAm   == <<"9", ":", "0", "0", " ", "A", "M">>
TimeEve  == <<"2", "1", ":", "0", "0">>
Filled   == <<"o", "k">>
OneItem  == <<"Talk">>
TwoItems == <<"Talk", "Break">>

\* a payload every check accepts, but for the slug, which the caller may leave out
BasePayload(t, sl, d, tm) ==
    [f \in Fields |->
        CASE f = "title" -> t
          [] f = "slug" -> sl
          [] f = "date" -> d
          [] f = "time" -> tm
          [] f \in ArrayFields -> OneItem
          [] OTHER -> Filled]

\* one path of a payload left out, left blank or left empty
Deviations ==
    {<<>>} \cup {<<f, v>> : f \in TrimmedFields, v \in {Undefined, BlankStr}}
           \cup {<<f, v>> : f \in ArrayFields, v \in {Undefined, <<>>, TwoItems}}

InsertPayloads ==
    {IF dev = <<>> THEN b ELSE [b EXCEPT ![dev[1]] = dev[2]] :
        b \in {BasePayload(t, sl, d, tm) :
                  t \in {TitleHi, TitleAb}, sl \in {Undefined, SlugX},
                  d \in {DateLoose}, tm \in {TimeAm}},
        dev \in Deviations}

\* the values a caller assigns to a path of a stored document
UpdateValues(f) ==
    CASE f = "title" -> {TitleHi, TitleAb, BlankStr}
      [] f = "slug" -> {SlugX, <<>>}
      [] f = "date" -> {DateIso, DateLoose, BlankStr}
      [] f = "time" -> {TimeAm, TimeEve, BlankStr}
      [] f \in ArrayFields -> {<<>>}
      [] OTHER -> {BlankStr}

\* one path assigned, or two of the paths the hook looks at
PatchesOn(F) ==
    {p \in [F -> UNION {UpdateValues(f) : f \in F}] : \A f \in F : p[f] \in UpdateValues(f)}
HookedFields == {"title", "slug", "date", "time", "agenda"}
UpdatePatches ==
    UNION ({PatchesOn({f}) : f \in Fields}
              \cup {PatchesOn({f, g}) : f \in HookedFields, g \in HookedFields})

IdleSave == [phase |-> "idle", op |-> "none", id |-> 0, doc |-> EmptyDoc, modified |-> {},
             result |-> "none", errFields |-> {}]


\* new Event(payload), about to be saved
SubmitInsert(id, payload) ==
    /\ lastSave.phase = "idle"
    /\ events[id] = NoDoc
    /\ LET doc == Assign(EmptyDoc, payload)
       IN  lastSave' = [IdleSave EXCEPT !.phase = "pending", !.op = "insert", !.id = id,
                                        !.doc = doc,
                                        !.modified = ModifiedPaths(EmptyDoc, doc)]
    /\ UNCHANGED <<storeVars, slugAssigned, exceptEvent>>

\* a stored Event with the paths of patch assigned, about to be saved
SubmitUpdate(id, patch) ==
    /\ lastSave.phase = "idle"
    /\ events[id] # NoDoc
    /\ LET doc == Assign(events[id], patch)
       IN  lastSave' = [IdleSave EXCEPT !.phase = "pending", !.op = "update", !.id = id,
                                        !.doc = doc,
                                        !.modified = ModifiedPaths(events[id], doc)]
    /\ UNCHANGED <<storeVars, slugAssigned, exceptEvent>>

Rejected(kind, fields) ==
    /\ lastSave' = [IdleSave EXCEPT !.phase = "done", !.op = lastSave.op,
                                    !.id = lastSave.id, !.modified = lastSave.modified,
                                    !.result = kind, !.errFields = fields]
    /\ UNCHANGED <<storeVars, slugAssigned, exceptEvent>>

\* doc.save(): validation, the pre-save hook, the write under the unique index
EventSave ==
    /\ lastSave.phase = "pending"
    /\ LET id == lastSave.id
           doc == lastSave.doc
           modified == lastSave.modified
           failures == ValidationFailures(doc)
       IN  IF failures # {} THEN Rejected("validation", failures)
           ELSE \E nd \in NormalizeDateOutcomes(doc.date) :
                \E parsed \in (IF ReachesDateParse(doc.time)
                               THEN DateParseOutcomes(Trim(doc.time)) ELSE {NaN}) :
                  LET hooked == Normalized(doc, modified, nd, parsed)
                      err == HookError(hooked)
                  IN  IF err # NoError THEN Rejected("hook", {err[1]})
                      ELSE IF SlugTaken(id, hooked.slug) THEN Rejected("duplicate", {"slug"})
                      ELSE /\ events' = [events EXCEPT ![id] = hooked]
                           /\ slugAssigned' = [slugAssigned EXCEPT ![id] =
                                  IF "title" \in modified \/ Falsy(doc.slug) THEN FALSE
                                  ELSE IF "slug" \in modified THEN TRUE ELSE @]
                           /\ lastSave' = [IdleSave EXCEPT !.phase = "done",
                                              !.op = lastSave.op, !.id = id,
                                              !.modified = modified, !.result = "ok"]
                           /\ UNCHANGED <<models, bookings, exceptEvent>>

\* the caller has the outcome of save()
EventReturn ==
    /\ lastSave.phase = "done"
    /\ lastSave' = IdleSave
    /\ UNCHANGED <<storeVars, slugAssigned, exceptEvent>>

(***************************************************************************)
(* The Booking schema (booking.model.js 6-26)                              *)
(***************************************************************************)
NoEventId == 0

\* trim: true, lowercase: true without the lowercase
TrimOnly(v) == IF v = Undefined THEN v ELSE Trim(v)
\* trim: true, lowercase: true
SetEmail(v) == IF v = Undefined THEN v ELSE ToLowerCase(Trim(v))

\* [^<>()[\]\\.,;:\s@\"]
AtomChar(c) ==
    /\ c \notin {"<", ">", "(", ")", "[", "]", "\\", ".", ",", ";", ":", "@", "\""}
    /\ ~IsSpace(c)

\* atom+(\.atom+)*
DottedAtoms(s) ==
    /\ s # <<>>
    /\ \A i \in DOMAIN s : AtomChar(s[i]) \/ s[i] = "."
    /\ s[1] # "." /\ s[Len(s)] # "."
    /\ \A i \in 1..(Len(s) - 1) : ~(s[i] = "." /\ s[i + 1] = ".")

\* ".+"
QuotedLocal(s) ==
    /\ Len(s) >= 3
    /\ s[1] = "\"" /\ s[Len(s)] = "\""
    /\ \A i \in DOMAIN s : s[i] \notin {"\n", "\r"}

\* (atom+\.)+atom{2,}
DomainPart(s) ==
    /\ DottedAtoms(s)
    /\ \E i \in DOMAIN s : s[i] = "."
    /\ Len(s) >= 2 /\ s[Len(s)] # "." /\ s[Len(s) - 1] # "."

\* validate.validator (booking.model.js 15-17)
ValidEmail(v) ==
    \E k \in DOMAIN v :
        /\ v[k] = "@"
        /\ DottedAtoms(SubSeq(v, 1, k - 1)) \/ QuotedLocal(SubSeq(v, 1, k - 1))
        /\ DomainPart(SubSeq(v, k + 1, Len(v)))

\* The messages of the paths that fail the schema's validation
BookingFailures(doc) ==
    (IF doc.eventId = NoEventId THEN {"eventId is required"} ELSE {})
        \cup (IF Falsy(doc.email) THEN {"Email is required"}
              ELSE IF ~ValidEmail(doc.email) THEN {"is not a valid email"} ELSE {})

(***************************************************************************)
(* Booking saves (booking.model.js 32-46), one per request, interleaved    *)
(* with one another and with what other requests do to the Event store     *)
(***************************************************************************)
Savers == 1..MaxSaves

EmailPads    == {<<>>, <<" ">>}
EmailLocals  == {<<"U">>, <<"u", ".">>, <<"\"", "a", " ", "B", "\"">>}
EmailAts     == {<<"@">>, <<>>}
EmailDomains == {<<"E", "x", ".", "C", "O">>, <<"e", "x", ".", "c">>}
EmailInputs ==
    {Undefined} \cup {pad \o l \o a \o d \o pad :
        pad \in EmailPads, l \in EmailLocals, a \in EmailAts, d \in EmailDomains}

IdleBooking == [pc |-> "idle", eventId |-> NoEventId, email |-> <<>>, err |-> {}]
Failed(messages) == [IdleBooking EXCEPT !.pc = "failed", !.err = messages]

\* a stored Event, as a save of a complete payload leaves it
StoredEvent(id) ==
    [BasePayload(IF id = 1 THEN TitleHi ELSE TitleAb, Undefined, DateIso, TimeEve)
        EXCEPT !.title = Trim(@), !.slug = slugify(IF id = 1 THEN TitleHi ELSE TitleAb)]

\* const Event = mongoose.models.Event || mongoose.model('Event', EventSchema)
ImportEventModel ==
    /\ "Event" \notin models
    /\ models' = models \cup {"Event"}
    /\ UNCHANGED <<events, bookings, bookVars, exceptBooking>>

\* another request has saved an Event
EventCreated(id) ==
    /\ "Event" \in models
    /\ events[id] = NoDoc
    /\ events' = [events EXCEPT ![id] = StoredEvent(id)]
    /\ UNCHANGED <<models, bookings, bookVars, exceptBooking>>

\* another request has deleted an Event
EventDeleted(id) ==
    /\ events[id] # NoDoc
    /\ events' = [events EXCEPT ![id] = NoDoc]
    /\ UNCHANGED <<models, bookings, bookVars, exceptBooking>>

\* a pre-save hook that takes any answer of exists() for a yes
AnyAnswer(found) == TRUE
\* if (!exists) return next(new Error('Referenced eventId does not exist'))
Exists(found) == found

\* new Booking({eventId, email}).save(), up to the hook's await: the
\* validation, the eventId and model checks, and the query sent
BookingStart(p, eventId, email) ==
    /\ saves[p].pc = "idle"
    /\ LET doc == [eventId |-> eventId, email |-> SetEmail(email)]
           failures == BookingFailures(doc)
       IN  saves' = [saves EXCEPT ![p] =
              IF failures # {} THEN Failed(failures)
              ELSE IF doc.eventId = NoEventId THEN Failed({"eventId is required"})
              ELSE IF "Event" \notin models THEN Failed({"Event model is not registered"})
              ELSE [pc |-> "checking", eventId |-> doc.eventId, email |-> doc.email, err |-> {}]]
    /\ UNCHANGED <<storeVars, committed, exceptBooking>>

\* EventModel.exists({ _id: this.eventId }) answers
BookingExists(p) ==
    /\ saves[p].pc = "checking"
    /\ saves' = [saves EXCEPT ![p] =
          IF Exists(events[saves[p].eventId] # NoDoc)
          THEN [@ EXCEPT !.pc = "writing"]
          ELSE Failed({"Referenced eventId does not exist"})]
    /\ UNCHANGED <<storeVars, committed, exceptBooking>>

\* EventModel.exists rejects: catch (err) { next(err) }
BookingExistsThrows(p) ==
    /\ saves[p].pc = "checking"
    /\ saves' = [saves EXCEPT ![p] = Failed({"store error"})]
    /\ UNCHANGED <<storeVars, committed, exceptBooking>>

\* next() was called without an error: the document is written
BookingWrite(p) ==
    /\ saves[p].pc = "writing"
    /\ bookings' = bookings \cup
          {[id |-> p, eventId |-> saves[p].eventId, email |-> saves[p].email]}
    /\ committed' = [committed EXCEPT ![p] =
          IF events[saves[p].eventId] # NoDoc THEN "ok" ELSE "orphan"]
    /\ saves' = [saves EXCEPT ![p] = [IdleBooking EXCEPT !.pc = "done"]]
    /\ UNCHANGED <<models, events, exceptBooking>>

(***************************************************************************)
(* Specifications.  Each starts the part it exercises and holds the rest   *)
(* of the variables at rest.                                               *)
(***************************************************************************)
SlugInit ==
    /\ text \in Titles /\ slug = Pending /\ reslug = Pending
    /\ timeIn = <<>> /\ timeParsed = NaN /\ timeOut = Pending
    /\ cached = [conn |-> 0, promise |-> 0] /\ settled = <<>> /\ connectCalls = 0
    /\ callers = [p \in Callers |-> [pc |-> "idle", awaits |-> 0, ret |-> 0, n |-> 0]]
    /\ models = {} /\ events = [id \in EventIds |-> NoDoc] /\ bookings = {}
    /\ lastSave = IdleSave /\ slugAssigned = [id \in EventIds |-> FALSE]
    /\ saves = [p \in Savers |-> IdleBooking] /\ committed = [p \in Savers |-> "none"]
SlugNext == Derive \/ Rederive
SpecSlug == SlugInit /\ [][SlugNext]_vars

TimeInit ==
    /\ text = <<>> /\ slug = Pending /\ reslug = Pending
    /\ timeIn \in TimeInputs /\ timeParsed = NaN /\ timeOut = Pending
    /\ cached = [conn |-> 0, promise |-> 0] /\ settled = <<>> /\ connectCalls = 0
    /\ callers = [p \in Callers |-> [pc |-> "idle", awaits |-> 0, ret |-> 0, n |-> 0]]
    /\ models = {} /\ events = [id \in EventIds |-> NoDoc] /\ bookings = {}
    /\ lastSave = IdleSave /\ slugAssigned = [id \in EventIds |-> FALSE]
    /\ saves = [p \in Savers |-> IdleBooking] /\ committed = [p \in Savers |-> "none"]
TimeNext == NormalizeTimeCall
SpecTime == TimeInit /\ [][TimeNext]_vars

ConnInit ==
    /\ text = <<>> /\ slug = Pending /\ reslug = Pending
    /\ timeIn = <<>> /\ timeParsed = NaN /\ timeOut = Pending
    /\ cached = [conn |-> 0, promise |-> 0] /\ settled = <<>> /\ connectCalls = 0
    /\ callers = [p \in Callers |-> [pc |-> "idle", awaits |-> 0, ret |-> 0, n |-> 0]]
    /\ models = {} /\ events = [id \in EventIds |-> NoDoc] /\ bookings = {}
    /\ lastSave = IdleSave /\ slugAssigned = [id \in EventIds |-> FALSE]
    /\ saves = [p \in Savers |-> IdleBooking] /\ committed = [p \in Savers |-> "none"]
ConnNext ==
    \/ \E p \in Callers : Call(p)
    \/ \E k \in DOMAIN settled : ConnectResolves(k)
    \/ \E k \in DOMAIN settled : ConnectRejects(k)
    \/ \E p \in Callers : Resume(p)
    \/ \E p \in Callers : CallAgain(p)
SpecConn == ConnInit /\ [][ConnNext]_vars

EventInit ==
    /\ text = <<>> /\ slug = Pending /\ reslug = Pending
    /\ timeIn = <<>> /\ timeParsed = NaN /\ timeOut = Pending
    /\ cached = [conn |-> 0, promise |-> 0] /\ settled = <<>> /\ connectCalls = 0
    /\ callers = [p \in Callers |-> [pc |-> "idle", awaits |-> 0, ret |-> 0, n |-> 0]]
    /\ models = {"Event"} /\ events = [id \in EventIds |-> NoDoc] /\ bookings = {}
    /\ lastSave = IdleSave /\ slugAssigned = [id \in EventIds |-> FALSE]
    /\ saves = [p \in Savers |-> IdleBooking] /\ committed = [p \in Savers |-> "none"]
EventNext ==
    \/ \E id \in EventIds, payload \in InsertPayloads : SubmitInsert(id, payload)
    \/ \E id \in EventIds, patch \in UpdatePatches : SubmitUpdate(id, patch)
    \/ EventSave
    \/ EventReturn
SpecEvent == EventInit /\ [][EventNext]_vars

BookingInit ==
    /\ text = <<>> /\ slug = Pending /\ reslug = Pending
    /\ timeIn = <<>> /\ timeParsed = NaN /\ timeOut = Pending
    /\ cached = [conn |-> 0, promise |-> 0] /\ settled = <<>> /\ connectCalls = 0
    /\ callers = [p \in Callers |-> [pc |-> "idle", awaits |-> 0, ret |-> 0, n |-> 0]]
    /\ models = {} /\ events = [id \in EventIds |-> NoDoc] /\ bookings = {}
    /\ lastSave = IdleSave /\ slugAssigned = [id \in EventIds |-> FALSE]
    /\ saves = [p \in Savers |-> IdleBooking] /\ committed = [p \in Savers |-> "none"]
BookingNext ==
    \/ ImportEventModel
    \/ \E id \in EventIds : EventCreated(id)
    \/ \E id \in EventIds : EventDeleted(id)
    \/ \E p \in Savers, e \in EventIds \cup {NoEventId}, m \in EmailInputs : BookingStart(p, e, m)
    \/ \E p \in Savers : BookingExists(p)
    \/ \E p \in Savers : BookingExistsThrows(p)
    \/ \E p \in Savers : BookingWrite(p)
SpecBooking == BookingInit /\ [][BookingNext]_vars

(***************************************************************************)
(* Properties                                                              *)
(***************************************************************************)

\* ---- slugify ----
\* only a-z, 0-9 and hyphens, no hyphen first or last, no two hyphens in a row
CleanSlug(s) ==
    /\ \A i \in DOMAIN s : IsLower(s[i]) \/ IsDigit(s[i]) \/ s[i] = "-"
    /\ s # <<>> => s[1] # "-" /\ s[Len(s)] # "-"
    /\ \A i \in 1..(Len(s) - 1) : ~(s[i] = "-" /\ s[i + 1] = "-")

\* C4: the slug of any title is clean (lowercase letters, digits and single
\* hyphens, none leading or trailing), the empty title gives the empty slug,
\* and deriving a slug from a slug gives the same slug.
C4_SlugCleanAndIdempotent ==
    /\ slug # Pending => CleanSlug(slug) /\ (text = <<>> => slug = <<>>)
    /\ reslug # Pending => reslug = slug

\* a title with a space, a hyphen and a capital was slugged twice
C4_Witness ==
    /\ reslug # Pending
    /\ text = <<"a", " ", "-", "B">>
    /\ slug = <<"a", "-", "b">>

\* ---- normalizeTime ----
\* HH:MM with the hour in 0..23 and the minute in 0..59
CanonicalTime(s) ==
    /\ Len(s) = 5 /\ s[3] = ":"
    /\ AllDigits(SubSeq(s, 1, 2)) /\ AllDigits(SubSeq(s, 4, 5))
    /\ ToNumber(SubSeq(s, 1, 2)) \in 0..23
    /\ ToNumber(SubSeq(s, 4, 5)) \in 0..59

\* The grammars read from the front: one or two hour digits, then the rest
HourAndRest(v) ==
    {[h |-> SubSeq(v, 1, k), rest |-> SubSeq(v, k + 1, Len(v))] :
        k \in {j \in {1, 2} : j <= Len(v) /\ AllDigits(SubSeq(v, 1, j))}}

IsMinutes(r) == Len(r) = 3 /\ r[1] = ":" /\ AllDigits(SubSeq(r, 2, 3))

\* H:MM or HH:MM with the hour in 0..23 and the minute in 0..59
Strict24(v) ==
    {d \in HourAndRest(v) :
        /\ IsMinutes(d.rest)
        /\ ToNumber(d.h) \in 0..23 /\ ToNumber(SubSeq(d.rest, 2, 3)) \in 0..59}

\* the rest of a 12-hour time: optional :MM, optional blanks, am or pm in any case
Meridiem(r) ==
    LET tail == IF Len(r) >= 3 /\ IsMinutes(SubSeq(r, 1, 3)) THEN SubSeq(r, 4, Len(r)) ELSE r
        word == SelectSeq(tail, LAMBDA c : ~IsSpace(c))
        blanks == Len(tail) - Len(word)
    IN  IF /\ ToLowerCase(word) \in {<<"a", "m">>, <<"p", "m">>}
           /\ \A i \in 1..blanks : IsSpace(tail[i])
        THEN <<ToLowerCase(word)[1]>> ELSE <<>>

TwelveHour(v) == {d \in HourAndRest(v) : Meridiem(d.rest) # <<>>}

\* the clock a 12-hour time stands for, by the specified mapping
TwelveHourClock(d) ==
    LET h == ToNumber(d.h)
        m == IF Len(d.rest) >= 3 /\ IsMinutes(SubSeq(d.rest, 1, 3))
             THEN ToNumber(SubSeq(d.rest, 2, 3)) ELSE 0
        pm == Meridiem(d.rest) = <<"p">>
        hour == CASE h = 12 /\ ~pm -> 0
                  [] h = 12 /\ pm -> 12
                  [] h # 12 /\ pm -> h + 12
                  [] OTHER -> h
    IN  Pad2(hour) \o <<":">> \o Pad2(m)

\* C5 (as claimed): every input of the strict 24-hour grammar in range, or of
\* the 12-hour grammar, is normalized to HH:MM with hour 0..23, minute 0..59.
C5_AlwaysCanonical ==
    (timeOut # Pending /\ (Strict24(timeIn) # {} \/ TwelveHour(timeIn) # {}))
        => CanonicalTime(timeOut)

\* C6: normalizeTime agrees with the reference mapping: strict 24-hour times
\* zero-padded, 12-hour times by the am/pm rule with missing minutes 00, and
\* an input that no grammar matches (Date.parse gives NaN) returned as it is;
\* "9:00 AM", "09:00", "21:00" give "09:00", "09:00", "21:00", "25:00" stays.
C6_ReferenceMapping ==
    timeOut # Pending =>
        /\ \A d \in Strict24(timeIn) :
              timeOut = Pad2(ToNumber(d.h)) \o d.rest
        /\ Strict24(timeIn) = {} =>
              \A d \in TwelveHour(timeIn) : timeOut = TwelveHourClock(d)
        /\ (Strict24(timeIn) = {} /\ TwelveHour(timeIn) = {} /\ timeParsed.nan)
              => timeOut = timeIn
        /\ timeIn = <<"9", ":", "0", "0", " ", "A", "M">> => timeOut = <<"0", "9", ":", "0", "0">>
        /\ timeIn = <<"0", "9", ":", "0", "0">> => timeOut = <<"0", "9", ":", "0", "0">>
        /\ timeIn = <<"2", "1", ":", "0", "0">> => timeOut = <<"2", "1", ":", "0", "0">>
        /\ timeIn = <<"2", "5", ":", "0", "0">> => timeOut = <<"2", "5", ":", "0", "0">>

\* midnight written as 12 am was normalized
C6_Witness ==
    /\ timeIn = <<"1", "2", ":", "0", "5", " ", "a", "m">>
    /\ timeOut = <<"0", "0", ":", "0", "5">>

\* ---- connectToDatabase ----
C9_Invariant ==
    /\ connectCalls <= 1
    /\ \A p \in Callers, q \in Callers :
          (callers[p].pc = "returned" /\ callers[q].pc = "returned")
              => callers[p].ret = callers[q].ret
    /\ \A p \in Callers : callers[p].pc = "returned" => callers[p].ret # 0

C9_Step ==
    \A p \in Callers :
        (cached.conn # 0 /\ callers[p].pc = "idle" /\ callers'[p].pc # "idle")
            => /\ callers'[p].pc = "returned"
               /\ callers'[p].ret = cached.conn
               /\ connectCalls' = connectCalls
               /\ cached' = cached

\* C9: however the calls interleave, mongoose.connect is called at most once,
\* all calls that return give the same handle, and a call made once the
\* handle is cached returns it at once and starts no connection attempt.
C9_ConnectOnce == [](C9_Invariant) /\ [][C9_Step]_vars

\* two callers hold the handle, one of them from a second call
C9_Witness ==
    \E p \in Callers, q \in Callers :
        /\ p # q
        /\ callers[p].pc = "returned" /\ callers[q].pc = "returned"
        /\ callers[p].n = 2 /\ callers[q].n = 1
        /\ connectCalls = 1

\* ---- Event saves ----
SaveStep == lastSave.phase = "pending" /\ lastSave'.phase = "done"

C3_Step ==
    (/\ SaveStep
     /\ lastSave.op = "update"
     /\ lastSave'.result = "ok"
     /\ "title" \notin lastSave.modified
     /\ ~Falsy(lastSave.doc.slug))
        => /\ events'[lastSave.id].slug = lastSave.doc.slug
           /\ "slug" \notin lastSave.modified
                 => events'[lastSave.id].slug = events[lastSave.id].slug

\* C3: a save of a stored Event that does not modify the title and finds a
\* non-empty slug on the document writes that slug back as it is, whatever
\* else the save changed; it is the stored slug unless the caller assigned one.
C3_SlugSticky == [][C3_Step]_vars

\* an accepted save changed the date alone, of an Event whose slug is not
\* the one its title gives
C3_Witness ==
    /\ lastSave.phase = "done" /\ lastSave.op = "update" /\ lastSave.result = "ok"
    /\ lastSave.modified = {"date"}
    /\ events[lastSave.id].slug = SlugX

\* the paths of a document that are missing, blank or empty
BadFields(doc) ==
    {f \in TrimmedFields : doc[f] = Undefined \/ \A i \in DOMAIN doc[f] : IsSpace(doc[f][i])}
        \cup {f \in ArrayFields : doc[f] = Undefined \/ doc[f] = <<>>}

C7_Step ==
    SaveStep =>
        LET doc == lastSave.doc
            id == lastSave.id
        IN  /\ BadFields(doc) # {} =>
                 /\ lastSave'.result \in {"validation", "hook"}
                 /\ lastSave'.errFields # {}
                 /\ \A f \in lastSave'.errFields :
                       f \in BadFields(doc) \/ (f = "slug" /\ Falsy(doc.slug))
                 /\ events' = events
            /\ (/\ BadFields(doc) = {} /\ ~Falsy(doc.slug)
                /\ Len(doc.agenda) = 1 /\ Len(doc.tags) = 1) =>
                 \/ /\ lastSave'.result = "ok"
                    /\ events'[id] # NoDoc
                    /\ \A f \in Fields \ {"slug", "date", "time"} : events'[id][f] = doc[f]
                 \/ /\ lastSave'.result = "duplicate"
                    /\ \E other \in EventIds \ {id} :
                          events[other] # NoDoc /\ events' = events

C10_SlugOfTitle ==
    \A id \in EventIds : events[id] # NoDoc => events[id].slug = slugify(events[id].title)

C10_Invariant ==
    \A id \in EventIds :
        (events[id] # NoDoc /\ ~slugAssigned[id]) => events[id].slug = slugify(events[id].title)

C10_Step ==
    (SaveStep /\ lastSave'.result = "ok") =>
        LET id == lastSave.id
        IN  IF "title" \in lastSave.modified \/ Falsy(lastSave.doc.slug)
            THEN events'[id].slug = slugify(events'[id].title)
            ELSE events'[id].slug = lastSave.doc.slug

\* C10 (amended): a save derives the slug from the title exactly when it
\* modifies the title or finds no slug, and otherwise writes the document's
\* slug as it is; so a stored slug is the slug of the title unless a save
\* that left the title alone assigned one.
C10_SlugOfTitleUnlessAssigned == [](C10_Invariant) /\ [][C10_Step]_vars

\* an accepted update changed the title of an Event that carried an assigned
\* slug, and the slug is the new title's again
C10_Witness ==
    /\ lastSave.phase = "done" /\ lastSave.op = "update" /\ lastSave.result = "ok"
    /\ lastSave.modified = {"title"}
    /\ events[lastSave.id].title = <<"A", " ", "b">>
    /\ events[lastSave.id].slug = <<"a", "-", "b">>

\* ---- Booking saves ----
\* C1 (as claimed): every Booking written references an Event that was in the
\* store when the write committed.
C1_NoOrphanAtCommit == \A p \in Savers : committed[p] # "orphan"

Dangling == {"Referenced eventId does not exist"}

C2_Step ==
    \A p \in Savers :
        (/\ saves[p].pc = "checking"
         /\ events[saves[p].eventId] = NoDoc
         /\ saves'[p].pc # "checking"
         /\ saves'[p].err # {"store error"})
            => /\ saves'[p].pc = "failed"
               /\ saves'[p].err = Dangling
               /\ bookings' = bookings
               /\ events' = events

C2_Invariant ==
    \A p \in Savers :
        saves[p].pc = "failed"
            => committed[p] = "none" /\ \A b \in bookings : b.id # p

\* C2: when exists() answers for an eventId that no stored Event has, the
\* save fails with 'Referenced eventId does not exist', and a failed save
\* has written no Booking and changed no Event.
C2_DanglingRejected == [](C2_Invariant) /\ [][C2_Step]_vars

\* a save has failed on a dangling reference while another's Booking stands
C2_Witness ==
    \E p \in Savers :
        /\ saves[p].pc = "failed" /\ saves[p].err = Dangling
        /\ bookings # {}

\* local-part, '@', a domain with a dot and a last segment of two or more
AddressShape(a) ==
    \E k \in DOMAIN a :
        /\ a[k] = "@" /\ k > 1
        /\ \A j \in (k + 1)..Len(a) : a[j] # "@"
        /\ \E dot \in (k + 2)..(Len(a) - 2) :
              a[dot] = "." /\ \A j \in (dot + 1)..Len(a) : a[j] # "."

NormalEmail(a) == Trim(a) = a /\ ToLowerCase(a) = a /\ AddressShape(a)

\* C8: every email that is a valid address once trimmed and lowercased passes
\* the schema's validation, and every Booking in flight past validation or
\* stored has an email that is trimmed, lowercase and of the address shape.
C8_EmailNormalized ==
    /\ \A m \in EmailInputs \ {Undefined} :
          ValidEmail(ToLowerCase(Trim(m)))
              => BookingFailures([eventId |-> 1, email |-> SetEmail(m)]) = {}
    /\ \A b \in bookings : NormalEmail(b.email)
    /\ \A p \in Savers : saves[p].pc \in {"checking", "writing"} => NormalEmail(saves[p].email)

\* a Booking given with capitals (and blanks) is stored in lower case
C8_Witness ==
    \E b \in bookings :
        /\ b.email = <<"u", "@", "e", "x", ".", "c", "o">>
        /\ events[b.eventId] # NoDoc

====
